---------------------------- MODULE Spec2Model ----------------------------
(***************************************************************************)
(* Model of app.py of the book recommender: the preprocessing pipeline     *)
(* (load_or_preprocess_data), the artifact cache on disk with several      *)
(* starting processes, and the query function recommend_books.             *)
(*                                                                         *)
(* Three specifications share the module:                                  *)
(*   SpecBuild  the rebuild branch of load_or_preprocess_data as a         *)
(*              function of the raw tables (lines 54-78);                  *)
(*   SpecRec    recommend_books over a matrix, its index and book_info     *)
(*              (lines 119-156);                                           *)
(*   SpecCache  startups of several processes over the two artifact files  *)
(*              (lines 22-27, 80-85, 106-117).                             *)
(***************************************************************************)
EXTENDS Integers, Sequences, FiniteSets, TLC

VARIABLES
    ratings_df,   \* Dataset/Ratings.csv: set of [user, isbn, rating]
    books_df,     \* Dataset/Books.csv: set of [row, isbn, title, author, image]
    book_pivot,   \* the title x user matrix [index, columns, values]
    model_knn,    \* the fitted NearestNeighbors: the matrix it was fit on
    query,        \* SpecRec: the last call's arguments [title, k]
    result,       \* SpecRec: what the last call of recommend_books did
    phase,        \* SpecBuild / SpecRec: position of the single process
    fs,           \* SpecCache: the two artifact files at their final paths
    pc,           \* SpecCache: position of each process
    mem           \* SpecCache: each process's local values

vars == <<ratings_df, books_df, book_pivot, model_knn, query, result, phase,
          fs, pc, mem>>

-----------------------------------------------------------------------------
(* Generic helpers *)

RECURSIVE SetToSortedSeq(_)
\* The elements of a finite set of integers in increasing order.
SetToSortedSeq(S) ==
    IF S = {} THEN <<>>
    ELSE LET m == CHOOSE x \in S : \A y \in S : x <= y
         IN  <<m>> \o SetToSortedSeq(S \ {m})

RECURSIVE SumRatings(_)
\* Sum of the rating column of a set of rating rows.
SumRatings(R) ==
    IF R = {} THEN 0
    ELSE LET r == CHOOSE x \in R : TRUE
         IN  r.rating + SumRatings(R \ {r})

Range(s) == { s[i] : i \in DOMAIN s }

NaN == "NaN"

-----------------------------------------------------------------------------
(* The rebuild branch of load_or_preprocess_data, lines 54-78 *)

\* Popularity floor of line 61 and activity floor of line 65.
MinBookRatings == 35
MinUserRatings == 10

\* line 54: ratings_df[ratings_df["Book-Rating"] != 0]
explicit_ratings_df(ratings) == { r \in ratings : r.rating # 0 }

\* line 57: inner merge on ISBN; a rating whose ISBN has no book is dropped,
\* and a rating gets one row per book row with its ISBN.
merge_on_isbn(ratings, books) ==
    UNION { { [user |-> r.user, isbn |-> r.isbn, rating |-> r.rating,
               title |-> b.title] : b \in { x \in books : x.isbn = r.isbn } } :
            r \in ratings }

\* line 60: value_counts of Book-Title.
book_counts(rb, t) == Cardinality({ r \in rb : r.title = t })

\* line 61: titles with at least 35 rating rows.
popular_books(rb) ==
    { t \in { r.title : r \in rb } : book_counts(rb, t) >= MinBookRatings }

\* line 62
filter_titles(rb) ==
    LET popular == popular_books(rb)
    IN  { r \in rb : r.title \in popular }

\* line 64: value_counts of User-ID, on the title-filtered rows.
user_counts(rb, u) == Cardinality({ r \in rb : r.user = u })

\* line 65: users with at least 10 rating rows.
active_users(rb) ==
    { u \in { r.user : r \in rb } : user_counts(rb, u) >= MinUserRatings }

\* line 66
filter_users(rb) ==
    LET active == active_users(rb)
    IN  { r \in rb : r.user \in active }

\* lines 59-66: title filter first, user filter on its result.
filtered_ratings_books(ratings, books) ==
    LET explicit == explicit_ratings_df(ratings)
        merged   == merge_on_isbn(explicit, books)
        by_title == filter_titles(merged)
    IN  filter_users(by_title)

\* The aggregate of pivot_table (default: mean) of one (title, user) group.
\* The inputs enumerated here give one user's ratings of one title the same
\* value, so the mean is that integer.
cell_mean(R) == SumRatings(R) \div Cardinality(R)

\* lines 69-71: pivot_table(index=title, columns=user, values=rating),
\* rows and columns in sorted key order, then fillna(0).
pivot_table(rb) ==
    LET index   == SetToSortedSeq({ r.title : r \in rb })
        columns == SetToSortedSeq({ r.user : r \in rb })
        group(t, u) == { r \in rb : r.title = t /\ r.user = u }
    IN  [ index   |-> index,
          columns |-> columns,
          values  |-> [ i \in DOMAIN index |->
                        [ j \in DOMAIN columns |->
                            IF group(index[i], columns[j]) = {} THEN 0
                            ELSE cell_mean(group(index[i], columns[j])) ] ] ]

\* lines 74, 77-78: csr_matrix(book_pivot.values) and fit; the brute-force
\* index keeps the rows it was fit on.
fit(pivot) == pivot.values

\* lines 54-71 as one function of the raw tables.
build_pivot(ratings, books) == pivot_table(filtered_ratings_books(ratings, books))

EmptyPivot == [ index |-> <<>>, columns |-> <<>>, values |-> <<>> ]


-----------------------------------------------------------------------------
(* Raw tables enumerated for SpecBuild and SpecCache *)

NumBuildUsers == 4
NumBuildTitles == 2
MaxEditions == 10

BuildUsers == 1..NumBuildUsers
BuildTitles == 1..NumBuildTitles

\* How many editions (ISBNs) of one title one user has rated explicitly.
EditionCounts == {0, 1, MaxEditions - 1, MaxEditions}

\* An ISBN is <<title, edition>>; OrphanIsbn is rated but is in no book row.
OrphanIsbn == <<0, 0>>

RatingOf(u, t) == 1 + ((u + 2 * t) % 10)

\* Books.csv: every edition of every title.
MkBooks ==
    { [row |-> (x[1] - 1) * MaxEditions + x[2], isbn |-> x, title |-> x[1],
       author |-> "author", image |-> "url"] :
        x \in BuildTitles \X (1..MaxEditions) }

\* Ratings.csv from the counts c[u, t]: user u rates editions 1..c[u, t] of
\* title t explicitly, the next edition implicitly (rating 0), and the orphan
\* ISBN explicitly.
MkRatings(c) ==
    { [user |-> x[1], isbn |-> <<x[2], x[3]>>, rating |-> RatingOf(x[1], x[2])] :
        x \in { y \in BuildUsers \X BuildTitles \X (1..MaxEditions) :
                  y[3] <= c[y[1], y[2]] } }
    \cup
    { [user |-> x[1], isbn |-> <<x[2], c[x] + 1>>, rating |-> 0] :
        x \in { y \in BuildUsers \X BuildTitles : c[y] < MaxEditions } }
    \cup
    { [user |-> u, isbn |-> OrphanIsbn, rating |-> 5] : u \in BuildUsers }

NoQuery == [title |-> 0, k |-> 0]
NoResult == [status |-> "none", queried |-> FALSE, recommendations |-> <<>>]
Procs == {"p1", "p2"}
Artifacts == {"book_pivot", "model_knn"}
NoFile == [state |-> "absent", data |-> <<>>, writers |-> {}, overlapped |-> FALSE]
NoMem == [branch |-> "none", ratings |-> {}, books |-> {},
          book_pivot |-> EmptyPivot, model_knn |-> <<>>, load_failed |-> FALSE]

-----------------------------------------------------------------------------
(* SpecBuild: one run of the rebuild branch on enumerated raw tables *)

InitBuild ==
    /\ \E c \in [BuildUsers \X BuildTitles -> EditionCounts] :
            ratings_df = MkRatings(c)
    /\ books_df = MkBooks
    /\ book_pivot = EmptyPivot
    /\ model_knn = <<>>
    /\ query = NoQuery
    /\ result = NoResult
    /\ phase = "raw"
    /\ fs = [f \in Artifacts |-> NoFile]
    /\ pc = [p \in Procs |-> "off"]
    /\ mem = [p \in Procs |-> NoMem]

\* lines 54-78. NearestNeighbors.fit raises on a matrix with no row.
Preprocess ==
    /\ phase = "raw"
    /\ LET pv == build_pivot(ratings_df, books_df)
       IN  /\ book_pivot' = pv
           /\ IF pv.index = <<>>
              THEN /\ phase' = "fit_error"
                   /\ model_knn' = <<>>
              ELSE /\ phase' = "built"
                   /\ model_knn' = fit(pv)
    /\ UNCHANGED <<ratings_df, books_df, query, result, fs, pc, mem>>

NextBuild == Preprocess

SpecBuild == InitBuild /\ [][NextBuild]_vars

\* Rating rows of title t that reach the pivot (before the 0-fill).
RowRatings(t) ==
    Cardinality({ r \in filtered_ratings_books(ratings_df, books_df) : r.title = t })

\* Rated (non-fill) cells of column j of the built matrix.
ColumnCells(j) ==
    Cardinality({ i \in DOMAIN book_pivot.index : book_pivot.values[i][j] # 0 })

\* C3: in every built matrix every row (title) has at least 35 explicit
\* ratings before the 0-fill.
C3_RowFloor ==
    phase = "built" =>
        \A i \in DOMAIN book_pivot.index :
            RowRatings(book_pivot.index[i]) >= MinBookRatings

\* C4: in every built matrix every column (user) has at least 10 rated
\* (non-fill) cells.
C4_ColumnFloor ==
    phase = "built" =>
        \A j \in DOMAIN book_pivot.columns : ColumnCells(j) >= MinUserRatings


-----------------------------------------------------------------------------
(* Cosine distance, compared exactly *)

RECURSIVE DotFrom(_, _, _)
DotFrom(a, b, j) ==
    IF j > Len(a) THEN 0 ELSE a[j] * b[j] + DotFrom(a, b, j + 1)

Dot(a, b) == DotFrom(a, b, 1)

\* The cosine similarity of row x to the query row q, up to the positive
\* factor 1/|q|, squared, as the fraction <<numerator, denominator>>. Cells
\* are never negative, so squaring keeps the order. A zero row has
\* similarity 0 (its normalisation leaves it zero).
SimKey(q, x) ==
    IF Dot(x, x) = 0 \/ Dot(q, q) = 0 THEN <<0, 1>>
    ELSE <<Dot(q, x) * Dot(q, x), Dot(x, x)>>

\* similarity(q, x) >= similarity(q, y), i.e. distance(q, x) <= distance(q, y)
SimGE(q, x, y) == SimKey(q, x)[1] * SimKey(q, y)[2] >= SimKey(q, y)[1] * SimKey(q, x)[2]

SimGT(q, x, y) == ~SimGE(q, y, x)

-----------------------------------------------------------------------------
(* NearestNeighbors.kneighbors, brute force, line 139 *)

\* All sequences of n distinct elements of S.
RECURSIVE Arrangements(_, _)
Arrangements(S, n) ==
    IF n = 0 THEN { <<>> }
    ELSE UNION { { <<x>> \o a : a \in Arrangements(S \ {x}, n - 1) } : x \in S }

\* The answers kneighbors(q, n_neighbors = n) may give over the fitted rows X:
\* the positions of n nearest rows, nearest first. Rows at equal distance
\* come in an order the library does not fix, so every order is an answer.
\* ok = FALSE stands for the ValueError of n <= 0, n > number of fitted rows,
\* or a query of another width than the fitted rows.
kneighbors(X, q, n) ==
    IF n <= 0 \/ n > Len(X) \/ (Len(X) > 0 /\ Len(q) # Len(X[1]))
    THEN { [ok |-> FALSE, indices |-> <<>>] }
    ELSE LET key == [r \in DOMAIN X |-> SimKey(q, X[r])]
             nearer(r, s) == key[r][1] * key[s][2] >= key[s][1] * key[r][2]
         IN  { [ok |-> TRUE, indices |-> a] :
                 a \in { b \in Arrangements(DOMAIN X, n) :
                          /\ \A i \in 1..(n - 1) : nearer(b[i], b[i + 1])
                          /\ \A r \in DOMAIN X \ Range(b) : nearer(b[n], r) } }

-----------------------------------------------------------------------------
(* book_info, lines 119-122 *)

\* line 120: drop_duplicates(subset="Book-Title") keeps each title's first row.
drop_duplicates(books) ==
    { b \in books : \A c \in books : c.title = b.title => b.row <= c.row }

\* A mutant of left_merge: an inner merge, which drops the titles without a
\* book row.
inner_merge(index, books) ==
    { [title |-> b.title, author |-> b.author, image |-> b.image] :
        b \in { c \in books : c.title \in Range(index) } }

\* line 122: merge(how="left") keeps every title of the matrix; a title with
\* no book row gets NaN columns.
left_merge(index, books) ==
    { [title |-> b.title, author |-> b.author, image |-> b.image] :
        b \in { c \in books : c.title \in Range(index) } }
    \cup
    { [title |-> t, author |-> NaN, image |-> NaN] :
        t \in { u \in Range(index) : \A c \in books : c.title # u } }

\* lines 120-122
book_info(pivot, books) == left_merge(pivot.index, drop_duplicates(books))

-----------------------------------------------------------------------------
(* recommend_books, lines 135-156 *)

\* A mutant of in_index: the membership test always passes.
in_index_always(book_name, pivot) == TRUE

\* line 136: book_name in pivot_table.index
in_index(book_name, pivot) == book_name \in Range(pivot.index)

\* line 138: index.get_loc; 0 stands for its KeyError.
get_loc(pivot, book_name) ==
    IF book_name \in Range(pivot.index)
    THEN CHOOSE i \in DOMAIN pivot.index : pivot.index[i] = book_name
    ELSE 0

\* lines 141, 143: drop the first neighbour, by position.
drop_first(nb) == SubSeq(nb, 2, Len(nb))

\* Insert position x into a list sorted by similarity descending, after the
\* elements at least as similar (the sort is stable).
RECURSIVE insert_desc(_, _, _, _)
insert_desc(X, q, sorted, x) ==
    IF sorted = <<>> THEN <<x>>
    ELSE IF SimGE(q, X[Head(sorted)], X[x])
         THEN <<Head(sorted)>> \o insert_desc(X, q, Tail(sorted), x)
         ELSE <<x>> \o sorted

RECURSIVE insert_asc(_, _, _, _)
insert_asc(X, q, sorted, x) ==
    IF sorted = <<>> THEN <<x>>
    ELSE IF SimGE(q, X[x], X[Head(sorted)])
         THEN <<Head(sorted)>> \o insert_asc(X, q, Tail(sorted), x)
         ELSE <<x>> \o sorted

RECURSIVE sort_asc_from(_, _, _, _)
sort_asc_from(X, q, data, done) ==
    IF data = <<>> THEN done
    ELSE sort_asc_from(X, q, Tail(data), insert_asc(X, q, done, Head(data)))

RECURSIVE sort_desc_from(_, _, _, _)
sort_desc_from(X, q, data, done) ==
    IF data = <<>> THEN done
    ELSE sort_desc_from(X, q, Tail(data), insert_desc(X, q, done, Head(data)))

\* A mutant of sort_by_similarity: reverse=False.
sort_ascending(X, q, data) == sort_asc_from(X, q, data, <<>>)

\* line 144: sort(key=similarity, reverse=True)
sort_by_similarity(X, q, data) == sort_desc_from(X, q, data, <<>>)

\* lines 145-155: the loop over data[:k] with rank = position; a title is
\* appended when its rows of book_info are not empty. ok = FALSE stands for
\* the IndexError of a position past the end of the index.
RECURSIVE collect(_, _, _, _)
collect(pivot, info_table, data, rank) ==
    IF data = <<>> THEN [ok |-> TRUE, items |-> <<>>]
    ELSE IF Head(data) > Len(pivot.index) THEN [ok |-> FALSE, items |-> <<>>]
    ELSE LET title == pivot.index[Head(data)]
             info  == { b \in info_table : b.title = title }
             first == CHOOSE b \in info : TRUE
             rest  == collect(pivot, info_table, Tail(data), rank + 1)
         IN  IF ~rest.ok \/ info = {} THEN rest
             ELSE [ ok    |-> TRUE,
                    items |-> << [ title     |-> title,
                                   author    |-> IF first.author = NaN
                                                 THEN "Unknown" ELSE first.author,
                                   image_url |-> IF first.image = NaN
                                                 THEN "No Image" ELSE first.image,
                                   rank      |-> rank ] >> \o rest.items ]

Raised(queried) == [status |-> "raised", queried |-> queried, recommendations |-> <<>>]

\* lines 139-156 for one answer nb of the index.
recommend_from(pivot, X, q, k, info_table, nb) ==
    IF ~nb.ok THEN Raised(TRUE)
    ELSE LET data == sort_by_similarity(X, q, drop_first(nb.indices))
             top  == SubSeq(data, 1, IF k < Len(data) THEN k ELSE Len(data))
             recs == collect(pivot, info_table, top, 1)
         IN  IF ~recs.ok THEN Raised(TRUE)
             ELSE [status |-> "found", queried |-> TRUE,
                   recommendations |-> recs.items]

\* recommend_books(book_name, pivot_table, model, num_recommendations): the
\* set of results the call may have, one per answer of the index.
recommend_books(book_name, pivot, model, k, info_table) ==
    IF ~in_index(book_name, pivot)
    THEN { [status |-> "not_found", queried |-> FALSE, recommendations |-> <<>>] }
    ELSE IF get_loc(pivot, book_name) = 0 THEN { Raised(FALSE) }
    ELSE LET q == pivot.values[get_loc(pivot, book_name)]
         IN  { recommend_from(pivot, model, q, k, info_table, nb) :
                 nb \in kneighbors(model, q, k + 1) }

-----------------------------------------------------------------------------
(* SpecRec: queries of recommend_books over enumerated matrices *)

\* Titles and users of the enumerated matrices; A, B, C of the scenario are
\* the titles 1, 2, 3.
RecTitles == {1, 2, 3}
RecUsers == {1, 2}

\* Largest cell of an enumerated matrix and largest count asked for.
MaxCell == 2
MaxK == 3

\* A title that is in no matrix.
UnknownTitle == 4

\* The matrices a build can leave: a row per surviving title, a column per
\* surviving user, no row and no column without a rating.
RecPivots ==
    { [index |-> SetToSortedSeq(T), columns |-> SetToSortedSeq(RecUsers), values |-> v] :
        <<T, v>> \in
          { x \in UNION { {T} \X [1..Cardinality(T) -> [RecUsers -> 0..MaxCell]] :
                            T \in SUBSET RecTitles \ {{}} } :
              /\ \A i \in DOMAIN x[2] : \E j \in RecUsers : x[2][i][j] # 0
              /\ \A j \in RecUsers : \E i \in DOMAIN x[2] : x[2][i][j] # 0 } }

\* The three-title scenario: A = 1 rated 5, 4, 5 by users 1, 2, 3; B = 2 rated
\* 4, 5 by users 1, 2; C = 3 rated 1 by user 3.
ScenarioPivot ==
    [index |-> <<1, 2, 3>>, columns |-> <<1, 2, 3>>,
     values |-> << <<5, 4, 5>>, <<4, 5, 0>>, <<0, 0, 1>> >>]

\* Rows of Books.csv: title 1 without an author, title 2 without an image,
\* title 3 in two editions.
RecBookRows ==
    { [row |-> 1, isbn |-> <<1, 1>>, title |-> 1, author |-> NaN, image |-> "url1"],
      [row |-> 2, isbn |-> <<2, 1>>, title |-> 2, author |-> "author2", image |-> NaN],
      [row |-> 3, isbn |-> <<3, 1>>, title |-> 3, author |-> "author3", image |-> "url3"],
      [row |-> 4, isbn |-> <<3, 2>>, title |-> 3, author |-> "author3b", image |-> "url3b"] }

\* The book tables enumerated: title 1 always has its row, title 2 may have
\* none, title 3 has its first row and may have its second.
RecBooks ==
    { B \in SUBSET RecBookRows : \A b \in RecBookRows : b.row \in {1, 3} => b \in B }

InitRec ==
    /\ ratings_df = {}
    /\ books_df \in RecBooks
    /\ book_pivot \in RecPivots \cup {ScenarioPivot}
    /\ model_knn = fit(book_pivot)
    /\ query = NoQuery
    /\ result = NoResult
    /\ phase = "serving"
    /\ fs = [f \in Artifacts |-> NoFile]
    /\ pc = [p \in Procs |-> "off"]
    /\ mem = [p \in Procs |-> NoMem]

\* line 204 and lines 135-156: one call of recommend_books.
Recommend ==
    /\ phase = "serving"
    /\ phase' = "answered"
    /\ \E t \in RecTitles \cup {UnknownTitle}, k \in (-1)..MaxK :
         /\ query' = [title |-> t, k |-> k]
         /\ result' \in recommend_books(t, book_pivot, model_knn, k,
                                        book_info(book_pivot, books_df))
    /\ UNCHANGED <<ratings_df, books_df, book_pivot, model_knn, fs, pc, mem>>

NextRec == Recommend

SpecRec == InitRec /\ [][NextRec]_vars

Recs == result.recommendations

RecTitlesOf(recs) == { recs[i].title : i \in DOMAIN recs }

\* The row of a title of the matrix.
RowOf(t) == book_pivot.values[get_loc(book_pivot, t)]

QueryRow == RowOf(query.title)

\* C1: recommend_books(t, k) returns at most k items, and the ranks of the
\* returned items, in list order, are exactly 1, 2, ..., len(items).
C1_RanksContiguous ==
    result.status = "found" =>
        /\ Len(Recs) <= query.k
        /\ \A i \in DOMAIN Recs : Recs[i].rank = i

\* C1's case: a call returned k = 2 items with ranks 1, 2, one of them a title
\* with no row in the book table.
C1_Witness ==
    /\ result.status = "found"
    /\ query.k = 2
    /\ Len(Recs) = 2
    /\ Recs[1].rank = 1 /\ Recs[2].rank = 2
    /\ \E i \in DOMAIN Recs : \A b \in books_df : b.title # Recs[i].title

\* C2: for a title that is not a row key of the matrix, recommend_books
\* returns the not-found result with no item, does not raise, and does not
\* query the neighbor index.
C2_UnknownTitleNotFound ==
    (phase = "answered" /\ query.title \notin Range(book_pivot.index)) =>
        /\ result.status = "not_found"
        /\ Recs = <<>>
        /\ ~result.queried

\* C2's case: a call for a title outside the matrix has returned.
C2_Witness ==
    /\ phase = "answered"
    /\ query.title \notin Range(book_pivot.index)
    /\ query.k = MaxK
    /\ result.status = "not_found"
    /\ Len(book_pivot.index) >= 2

\* C5: the items returned for a title of the matrix never include that title.
C5_SelfExcluded ==
    result.status = "found" => query.title \notin RecTitlesOf(Recs)

\* C6: the returned items are ordered by cosine similarity to the query row,
\* non-increasing with rank; in the three-title scenario B (2) comes before
\* C (3) for query A (1).
C6_OrderedBySimilarity ==
    result.status = "found" =>
        /\ \A i, j \in DOMAIN Recs :
             SimGT(QueryRow, RowOf(Recs[j].title), RowOf(Recs[i].title))
                => Recs[j].rank < Recs[i].rank
        /\ (book_pivot = ScenarioPivot /\ query.title = 1 /\ query.k >= 1) =>
             /\ Recs[1].title = 2
             /\ \A i \in DOMAIN Recs : Recs[i].title = 3 => i > 1

\* C6's case: the scenario, query A with k = 2, answered B then C.
C6_Witness ==
    /\ result.status = "found"
    /\ book_pivot = ScenarioPivot
    /\ query = [title |-> 1, k |-> 2]
    /\ Len(Recs) = 2
    /\ Recs[1].title = 2 /\ Recs[2].title = 3
    /\ SimGT(QueryRow, RowOf(2), RowOf(3))

-----------------------------------------------------------------------------
(* SpecCache: startups of several processes over the artifact files *)

\* The versions of Ratings.csv: every user rates every edition of the titles
\* of T, for each non-empty set T of titles.
Datasets ==
    { MkRatings([x \in BuildUsers \X BuildTitles |->
                    IF x[2] \in T THEN MaxEditions ELSE 0]) :
        T \in SUBSET BuildTitles \ {{}} }

\* os.path.exists: a file exists from the moment it is opened for writing.
exists(f) == fs[f].state # "absent"

\* Positions inside the else branch of lines 27-83.
RebuildPcs ==
    {"read_csv", "preprocess", "open_pivot", "write_pivot", "open_model",
     "write_model"}

\* Positions at which a startup has ended.
EndPcs == {"serving", "error", "stopped", "crashed"}

InitCache ==
    /\ ratings_df \in Datasets
    /\ books_df = MkBooks
    /\ book_pivot = EmptyPivot
    /\ model_knn = <<>>
    /\ query = NoQuery
    /\ result = NoResult
    /\ phase = "cache"
    /\ fs = [f \in Artifacts |-> NoFile]
    /\ pc = [p \in Procs |-> "off"]
    /\ mem = [p \in Procs |-> NoMem]

\* Dataset/Ratings.csv is replaced by another version between or during runs.
ReplaceDataset ==
    /\ \E d \in Datasets \ {ratings_df} : ratings_df' = d
    /\ UNCHANGED <<books_df, book_pivot, model_knn, query, result, phase, fs, pc, mem>>

\* line 88 and line 22: a process starts and tests that both files exist.
Start(p) ==
    /\ pc[p] = "off"
    /\ IF \A f \in Artifacts : exists(f)
       THEN /\ pc' = [pc EXCEPT ![p] = "load_pivot"]
            /\ mem' = [mem EXCEPT ![p].branch = "cache"]
       ELSE /\ pc' = [pc EXCEPT ![p] = "read_csv"]
            /\ mem' = [mem EXCEPT ![p].branch = "rebuild"]
    /\ UNCHANGED <<ratings_df, books_df, book_pivot, model_knn, query, result, phase, fs>>

\* pd.read_pickle / joblib.load of a file: only a completely written file
\* unpickles; a missing, empty or truncated one raises.
loadable(f) == fs[f].state = "complete"

\* line 23: no handler is around the load, the exception leaves the function.
LoadPivot(p) ==
    /\ pc[p] = "load_pivot"
    /\ IF loadable("book_pivot")
       THEN /\ mem' = [mem EXCEPT ![p].book_pivot = fs["book_pivot"].data]
            /\ pc' = [pc EXCEPT ![p] = "load_model"]
       ELSE /\ mem' = [mem EXCEPT ![p].load_failed = TRUE]
            /\ pc' = [pc EXCEPT ![p] = "error"]
    /\ UNCHANGED <<ratings_df, books_df, book_pivot, model_knn, query, result, phase, fs>>

\* line 24
LoadModel(p) ==
    /\ pc[p] = "load_model"
    /\ IF loadable("model_knn")
       THEN /\ mem' = [mem EXCEPT ![p].model_knn = fs["model_knn"].data]
            /\ pc' = [pc EXCEPT ![p] = "load_csv"]
       ELSE /\ mem' = [mem EXCEPT ![p].load_failed = TRUE]
            /\ pc' = [pc EXCEPT ![p] = "error"]
    /\ UNCHANGED <<ratings_df, books_df, book_pivot, model_knn, query, result, phase, fs>>

\* lines 25-26 and the return of line 85
LoadCsv(p) ==
    /\ pc[p] = "load_csv"
    /\ mem' = [mem EXCEPT ![p].ratings = ratings_df, ![p].books = books_df]
    /\ pc' = [pc EXCEPT ![p] = "reload"]
    /\ UNCHANGED <<ratings_df, books_df, book_pivot, model_knn, query, result, phase, fs>>

\* lines 29-31
ReadCsv(p) ==
    /\ pc[p] = "read_csv"
    /\ mem' = [mem EXCEPT ![p].ratings = ratings_df, ![p].books = books_df]
    /\ pc' = [pc EXCEPT ![p] = "preprocess"]
    /\ UNCHANGED <<ratings_df, books_df, book_pivot, model_knn, query, result, phase, fs>>

\* lines 33-78; fit raises on a matrix with no row.
PreprocessP(p) ==
    /\ pc[p] = "preprocess"
    /\ LET pv == build_pivot(mem[p].ratings, mem[p].books)
       IN  IF pv.index = <<>>
           THEN /\ pc' = [pc EXCEPT ![p] = "error"]
                /\ mem' = mem
           ELSE /\ pc' = [pc EXCEPT ![p] = "open_pivot"]
                /\ mem' = [mem EXCEPT ![p].book_pivot = pv, ![p].model_knn = fit(pv)]
    /\ UNCHANGED <<ratings_df, books_df, book_pivot, model_knn, query, result, phase, fs>>

\* pd.to_pickle / joblib.dump open the final path for writing, which
\* truncates it: the file exists, empty, from here on. Opening it while
\* another process is writing it cuts that process's output.
open_for_write(f, p) ==
    [fs EXCEPT ![f] = [state      |-> "partial",
                       data       |-> <<>>,
                       writers    |-> fs[f].writers \cup {p},
                       overlapped |-> fs[f].writers # {}]]

\* The states of the files when p's write ends. A write nobody interfered
\* with leaves the data; while another writer still has the file open it is
\* incomplete; after an overlap the bytes of the writers are mixed, and the
\* file holds p's data or is damaged, depending on the order of their writes.
finish_write(f, p, data) ==
    LET others == fs[f].writers \ {p}
        whole  == [fs EXCEPT ![f] = [state |-> "complete", data |-> data,
                                     writers |-> others,
                                     overlapped |-> fs[f].overlapped]]
        torn   == [fs EXCEPT ![f] = [state |-> "partial", data |-> <<>>,
                                     writers |-> others,
                                     overlapped |-> fs[f].overlapped]]
    IN  IF others # {} THEN {torn}
        ELSE IF fs[f].overlapped THEN {whole, torn}
        ELSE {whole}

\* line 81, first half
OpenPivot(p) ==
    /\ pc[p] = "open_pivot"
    /\ fs' = open_for_write("book_pivot", p)
    /\ pc' = [pc EXCEPT ![p] = "write_pivot"]
    /\ UNCHANGED <<ratings_df, books_df, book_pivot, model_knn, query, result, phase, mem>>

\* line 81, second half
WritePivot(p) ==
    /\ pc[p] = "write_pivot"
    /\ fs' \in finish_write("book_pivot", p, mem[p].book_pivot)
    /\ pc' = [pc EXCEPT ![p] = "open_model"]
    /\ UNCHANGED <<ratings_df, books_df, book_pivot, model_knn, query, result, phase, mem>>

\* line 82, first half
OpenModel(p) ==
    /\ pc[p] = "open_model"
    /\ fs' = open_for_write("model_knn", p)
    /\ pc' = [pc EXCEPT ![p] = "write_model"]
    /\ UNCHANGED <<ratings_df, books_df, book_pivot, model_knn, query, result, phase, mem>>

\* line 82, second half, and the return of line 85
WriteModel(p) ==
    /\ pc[p] = "write_model"
    /\ fs' \in finish_write("model_knn", p, mem[p].model_knn)
    /\ pc' = [pc EXCEPT ![p] = "reload"]
    /\ UNCHANGED <<ratings_df, books_df, book_pivot, model_knn, query, result, phase, mem>>

\* lines 106-117: both files and the tables are read again at module level;
\* any exception is reported (st.error) and the script stops (st.stop).
Reload(p) ==
    /\ pc[p] = "reload"
    /\ IF loadable("book_pivot") /\ loadable("model_knn")
       THEN /\ mem' = [mem EXCEPT ![p].book_pivot = fs["book_pivot"].data,
                                  ![p].model_knn = fs["model_knn"].data,
                                  ![p].ratings = ratings_df,
                                  ![p].books = books_df]
            /\ pc' = [pc EXCEPT ![p] = "serving"]
       ELSE /\ mem' = [mem EXCEPT ![p].load_failed = TRUE]
            /\ pc' = [pc EXCEPT ![p] = "stopped"]
    /\ UNCHANGED <<ratings_df, books_df, book_pivot, model_knn, query, result, phase, fs>>

\* The process is killed at any point of its startup; a file it was writing
\* stays as far as it was written.
Crash(p) ==
    /\ pc[p] \notin EndPcs \cup {"off"}
    /\ pc' = [pc EXCEPT ![p] = "crashed"]
    /\ fs' = [f \in Artifacts |-> [fs[f] EXCEPT !.writers = @ \ {p}]]
    /\ UNCHANGED <<ratings_df, books_df, book_pivot, model_knn, query, result, phase, mem>>

\* The process is gone; the same name stands for the next one to start.
Exit(p) ==
    /\ pc[p] \in EndPcs
    /\ pc' = [pc EXCEPT ![p] = "off"]
    /\ mem' = [mem EXCEPT ![p] = NoMem]
    /\ UNCHANGED <<ratings_df, books_df, book_pivot, model_knn, query, result, phase, fs>>

NextCache ==
    \/ ReplaceDataset
    \/ \E p \in Procs :
         \/ Start(p) \/ LoadPivot(p) \/ LoadModel(p) \/ LoadCsv(p)
         \/ ReadCsv(p) \/ PreprocessP(p)
         \/ OpenPivot(p) \/ WritePivot(p) \/ OpenModel(p) \/ WriteModel(p)
         \/ Reload(p) \/ Crash(p) \/ Exit(p)

SpecCache == InitCache /\ [][NextCache]_vars

\* The answers of recommend_books over a matrix and an index, for every title
\* and the counts 0 and 1.
Answers(pivot, model, books) ==
    [ x \in (BuildTitles \cup {0}) \X {0, 1} |->
        recommend_books(x[1], pivot, model, x[2], book_info(pivot, books)) ]

\* What a rebuild from the tables would serve.
FreshAnswers(ratings, books) ==
    LET pv == build_pivot(ratings, books)
    IN  Answers(pv, fit(pv), books)

C8_AtomicPersist ==
    \A f \in Artifacts : fs[f].state \in {"absent", "complete"}

\* C9: a startup whose load of an existing artifact failed goes on to a full
\* rebuild; it does not end with the error.
C9_FailedLoadRebuilds ==
    \A p \in Procs : mem[p].load_failed => pc[p] \notin {"error", "stopped"}

\* C10: two rebuilds are never in progress at the same time.
C10_OneRebuildAtATime ==
    Cardinality({ p \in Procs : pc[p] \in RebuildPcs }) <= 1

=============================================================================
